---- MODULE Spec2Model ----
(***************************************************************************)
(* The server of the Canvas audio LTI tool (src/unnamed/part_000): the     *)
(* session store, the submissions table, the storage backend (the local    *)
(* uploads directory or the S3 bucket), the upload requests in flight and  *)
(* the outcome reports in flight.                                          *)
(*                                                                         *)
(* Every asynchronous boundary of the code is an action boundary here:     *)
(* multer's intake runs before the route handler, the handler runs up to   *)
(* its await (S3) or its db.run, the S3 promise settles, the insert        *)
(* callback runs, the outcome callback runs.  Launch, get and list are one *)
(* action each.  `resp` is the response a step has just written, NoResp    *)
(* when it wrote none; Sent clears it once the response has left, and the  *)
(* next step of any request starts from there.                             *)
(*                                                                         *)
(* The recorder page (src/unnamed/part_001) is the second half of the      *)
(* module: the AudioRecorder object, the MediaRecorder objects it has      *)
(* created with the events each still has to deliver, the buttons, and the *)
(* fetches in flight.  Spec runs the server with the page loaded and left  *)
(* alone; RecorderSpec runs the page against a server that answers a       *)
(* submit in any of the ways it can.                                       *)
(***************************************************************************)
EXTENDS Integers, Sequences, FiniteSets, TLC

\* ---------------------------------------------------------------- bounds
MaxUploads == 2     \* POST /upload-audio requests that get past multer
MaxRecordings == 2  \* MediaRecorder objects a page creates
MaxSlices == 1      \* timeslice data events of one recording
MaxSubmits == 2     \* fetches of /upload-audio a page makes

\* ------------------------------------------------------------- constants
fileSize == 52428800          \* limits.fileSize: 50 * 1024 * 1024
grade == 1                    \* sendGradeToCanvas(req.session.lti, 1.0)

Sessions == {"s1", "s2"}      \* browser sessions (cookies)

Undefined == [undefined |-> TRUE]     \* JavaScript undefined
NoResp == [kind |-> "none"]

\* The launch forms the browsers submit.  Browser s1 launches as u1 in course
\* c1 and as u2 in course c2; browser s2 launches as u2 in course c1, with a
\* form that carries no outcome service URL ("" is falsy, like a missing
\* field).  So u1 and u2 share course c1 and assignment a1, u2 has two
\* courses and two browsers, and s1 changes hands.
LaunchBodies(s) ==
  IF s = "s1"
    THEN { [user_id |-> "u1", context_id |-> "c1", custom_canvas_assignment_id |-> "a1",
            roles |-> "Learner", lis_result_sourcedid |-> "r1",
            lis_outcome_service_url |-> "https://lms/outcome",
            oauth_consumer_key |-> "k1"],
           [user_id |-> "u2", context_id |-> "c2", custom_canvas_assignment_id |-> "a2",
            roles |-> "Instructor", lis_result_sourcedid |-> "r3",
            lis_outcome_service_url |-> "https://lms/outcome",
            oauth_consumer_key |-> "k2"] }
    ELSE { [user_id |-> "u2", context_id |-> "c1", custom_canvas_assignment_id |-> "a1",
            roles |-> "Learner", lis_result_sourcedid |-> "r2",
            lis_outcome_service_url |-> "", oauth_consumer_key |-> "k1"] }

\* What ims-lti does with a launch: the Provider constructor throws, or
\* valid_request calls back with (err, isValid).
ProviderResults ==
  {[thrown |-> TRUE]} \cup [thrown : {FALSE}, err : BOOLEAN, isValid : BOOLEAN]

\* The file part of an upload request: none, or a declared content type and
\* a byte length.
MimeTypes ==
  { [type |-> "audio", subtype |-> "webm"], [type |-> "video", subtype |-> "webm"],
    [type |-> "video", subtype |-> "mp4"], [type |-> "text", subtype |-> "plain"] }
FileParts == [mimetype : MimeTypes, size : {2048, fileSize + 1}]
UploadBodies == FileParts \cup {Undefined}

VARIABLES env, session, rows, disk, s3, reqs, nextReq, outcomes, resp

\* The recorder page: the fields of the AudioRecorder object (stream,
\* mediaRecorder, audioChunks, isRecording), the MediaRecorder objects created
\* so far, the disabled attribute of the four buttons, audioPlayer.src,
\* document.hidden, and the promises pending (getUserMedia, the submits, the
\* loads of the submission list).
VARIABLES stream, getUserMedia, mediaRecorder, recorders, audioChunks, isRecording,
          disabled, audioPlayer, hidden, fetches, nextFetch, loading

server == <<env, session, rows, disk, s3, reqs, nextReq, outcomes, resp>>

recorder == <<stream, getUserMedia, mediaRecorder, recorders, audioChunks, isRecording,
              disabled, audioPlayer, hidden, fetches, nextFetch, loading>>

vars == <<env, session, rows, disk, s3, reqs, nextReq, outcomes, resp, recorder>>

\* The buttons as the page's markup declares them: all four disabled until
\* the script enables them.
recorderHtml ==
  [recordBtn |-> TRUE, stopBtn |-> TRUE, playBtn |-> TRUE, submitBtn |-> TRUE]

\* new AudioRecorder() (part_001 l.2-15): the fields are set, loadSubmissions
\* is under way (l.32) and so is getUserMedia (l.14, l.46).
AudioRecorder ==
  /\ stream = "null"
  /\ getUserMedia = "pending"
  /\ mediaRecorder = 0
  /\ recorders = <<>>
  /\ audioChunks = <<>>
  /\ isRecording = FALSE
  /\ disabled = recorderHtml
  /\ audioPlayer = [src |-> ""]
  /\ hidden = FALSE
  /\ fetches = {}
  /\ nextFetch = 1
  /\ loading = 1

\* ------------------------------------------------------ startup (l.41-97)
\* storage = multer.memoryStorage() when both credentials are set, else
\* multer.diskStorage(...)
storage ==
  IF env.AWS_ACCESS_KEY_ID /\ env.AWS_SECRET_ACCESS_KEY THEN "memory" ELSE "disk"

\* A filter that lets every video type through.
fileFilterAnyVideo(file) ==
  \/ file.mimetype.type = "audio"
  \/ file.mimetype.type = "video"

\* fileFilter: file.mimetype.startsWith('audio/') || file.mimetype === 'video/webm'
fileFilter(file) ==
  \/ file.mimetype.type = "audio"
  \/ file.mimetype = [type |-> "video", subtype |-> "webm"]

\* limits.fileSize: multer aborts with LIMIT_FILE_SIZE once the part is
\* longer than the limit
LimitFileSize(file) == file.size > fileSize

Init ==
  /\ env \in [AWS_ACCESS_KEY_ID : BOOLEAN, AWS_SECRET_ACCESS_KEY : BOOLEAN]
  /\ session = [s \in Sessions |-> Undefined]
  /\ rows = {}
  /\ disk = {}
  /\ s3 = {}
  /\ reqs = <<>>
  /\ nextReq = 1
  /\ outcomes = {}
  /\ resp = NoResp
  /\ AudioRecorder

\* ------------------------------------------------- POST /launch (l.108-135)
\* A launch handler that lets a request in unless both reports are bad.
LaunchRejectedBoth(err, isValid) == err /\ ~isValid

\* if (err || !isValid) return res.status(401)...
LaunchRejected(err, isValid) == err \/ ~isValid

\* req.session.lti = { userId: req.body.user_id, ... }
LtiOf(body) ==
  [userId |-> body.user_id,
   courseId |-> body.context_id,
   assignmentId |-> body.custom_canvas_assignment_id,
   roles |-> body.roles,
   lisResultSourcedid |-> body.lis_result_sourcedid,
   lisOutcomeServiceUrl |-> body.lis_outcome_service_url,
   consumerKey |-> body.oauth_consumer_key]

\* A launch that keeps the context its session already holds.
SessionLtiKeepingPrior(prior, body) ==
  IF prior = Undefined THEN LtiOf(body) ELSE prior

\* req.session.lti = { ... } (l.122): the assignment replaces whatever the
\* session held
SessionLti(prior, body) == LtiOf(body)

\* A response to a launch, with what ims-lti reported and, for a launch that
\* was let in, the form it came with.
LaunchResp(s, body, pr, status, sent) ==
  [kind |-> "launch", session |-> s, body |-> body, provider |-> pr, status |-> status,
   sent |-> sent]

Launch(s, body, pr) ==
  /\ resp = NoResp
  /\ IF pr.thrown
       THEN \* new Provider(...) throws: the error handling middleware answers
            /\ session' = session
            /\ resp' = LaunchResp(s, Undefined, pr, 500, [error |-> "Something went wrong!"])
       ELSE IF LaunchRejected(pr.err, pr.isValid)
       THEN /\ session' = session
            /\ resp' = LaunchResp(s, Undefined, pr, 401, "LTI authentication failed")
       ELSE /\ session' = [session EXCEPT ![s] = SessionLti(session[s], body)]
            /\ resp' = LaunchResp(s, body, pr, 200, "public/recorder.html")
  /\ UNCHANGED <<env, rows, disk, s3, reqs, nextReq, outcomes>>
  /\ UNCHANGED recorder

\* ------------------------------------------- POST /upload-audio (l.137-202)
\* uuidv4(): a value no other call returns, named here by the call site and
\* the request that makes the call
uuidv4(site, rid) == site \o "-" \o ToString(rid)

\* filename: `${uuidv4()}.webm` (l.79)
DiskFileName(uuid) == uuid \o ".webm"

\* The request is over: its record leaves the requests in flight.
Finish(rid) == [r \in DOMAIN reqs \ {rid} |-> reqs[r]]

\* A response to an upload, with the request it answers.
UploadResp(rid, req, status, json) ==
  [kind |-> "upload", rid |-> rid, req |-> req, status |-> status, json |-> json]

\* What multer leaves in req.file: diskStorage has written the part under a
\* generated name, memoryStorage holds it in a buffer; size is the number of
\* bytes received.
DiskFile(part, filename) == [size |-> part.size, filename |-> filename]
MemoryFile(part) == [size |-> part.size, buffer |-> TRUE]

\* The middleware ahead of the route handler: express-session loads
\* req.session, then upload.single('audio') takes the file part in.  A part
\* the fileFilter refuses, or one longer than limits.fileSize, ends the
\* request in the error handling middleware (l.265-268); multer removes what
\* diskStorage had written of an oversize part before it reports the error.
UploadIntake(s, part) ==
  /\ resp = NoResp
  /\ nextReq <= MaxUploads
  /\ LET rid == nextReq
         req == [lti |-> session[s], part |-> Undefined, file |-> Undefined,
                 pc |-> "handler", params |-> Undefined]
         filename == DiskFileName(uuidv4("filename", rid))
     IN
     IF part # Undefined /\ (~fileFilter(part) \/ LimitFileSize(part))
       THEN \* the request ends here, never numbered, answered with the part
            \* it came with
            /\ resp' = UploadResp(0, [req EXCEPT !.part = part, !.pc = "multer"], 500,
                         [error |-> "Something went wrong!"])
            /\ UNCHANGED <<disk, reqs, nextReq>>
       ELSE /\ nextReq' = nextReq + 1
            /\ resp' = NoResp
            /\ IF part = Undefined
                 THEN \* no file part: req.file stays undefined
                      /\ reqs' = reqs @@ (rid :> req)
                      /\ disk' = disk
               ELSE IF storage = "disk"
                 THEN /\ disk' = disk \cup {[name |-> filename, size |-> part.size]}
                      /\ reqs' = reqs @@ (rid :> [req EXCEPT !.file = DiskFile(part, filename)])
                 ELSE /\ reqs' = reqs @@ (rid :> [req EXCEPT !.file = MemoryFile(part)])
                      /\ disk' = disk
  /\ UNCHANGED <<env, session, rows, s3, outcomes>>
  /\ UNCHANGED recorder

\* A branch test that looks at the access key alone.
S3BranchByKeyOnly(file) == env.AWS_ACCESS_KEY_ID

\* if (req.file.buffer && process.env.AWS_ACCESS_KEY_ID)
S3Branch(file) == "buffer" \in DOMAIN file /\ env.AWS_ACCESS_KEY_ID

\* const submissionId = uuidv4() (l.143)
SubmissionId(rid) == uuidv4("submissionId", rid)
\* fileName = `audio-${submissionId}.webm`; Key: `submissions/${fileName}`
S3FileName(submissionId) == "audio-" \o submissionId \o ".webm"
S3Key(fileName) == "submissions/" \o fileName
\* result.Location
S3Location(key) == "https://bucket.s3.amazonaws.com/" \o key
\* audioUrl = `/uploads/${req.file.filename}`
LocalUrl(filename) == "/uploads/" \o filename

\* An INSERT whose course and assignment parameters are bound the wrong way
\* round.
InsertParamsSwapped(req, submissionId, audioUrl, fileName) ==
  [id |-> submissionId,
   user_id |-> req.lti.userId,
   course_id |-> req.lti.assignmentId,
   assignment_id |-> req.lti.courseId,
   audio_url |-> audioUrl,
   file_name |-> fileName,
   file_size |-> req.file.size]

\* The values bound to the INSERT (l.172-178)
InsertParams(req, submissionId, audioUrl, fileName) ==
  [id |-> submissionId,
   user_id |-> req.lti.userId,
   course_id |-> req.lti.courseId,
   assignment_id |-> req.lti.assignmentId,
   audio_url |-> audioUrl,
   file_name |-> fileName,
   file_size |-> req.file.size]

\* if (!req.session.lti) return res.status(401)...
NoSession(req) == req.lti = Undefined

\* The route handler, from its first line to its await or its db.run.
UploadHandler(rid) ==
  /\ resp = NoResp
  /\ rid \in DOMAIN reqs
  /\ reqs[rid].pc = "handler"
  /\ LET req == reqs[rid] IN
     IF NoSession(req)
       THEN /\ resp' = UploadResp(rid, req, 401,
                         [error |-> "Session expired. Please relaunch from Canvas."])
            /\ reqs' = Finish(rid)
     ELSE IF req.file = Undefined
       THEN \* req.file.buffer throws a TypeError, caught at l.198
            /\ resp' = UploadResp(rid, req, 500,
                         [error |-> "Upload failed: TypeError"])
            /\ reqs' = Finish(rid)
     ELSE IF S3Branch(req.file)
       THEN \* await s3.upload(params).promise()
            /\ reqs' = [reqs EXCEPT ![rid] = [req EXCEPT !.pc = "s3"]]
            /\ resp' = NoResp
       ELSE /\ reqs' = [reqs EXCEPT ![rid] =
                          [req EXCEPT !.pc = "db",
                                      !.params = InsertParams(req, SubmissionId(rid),
                                                   LocalUrl(req.file.filename),
                                                   req.file.filename)]]
            /\ resp' = NoResp
  /\ UNCHANGED <<env, session, rows, disk, s3, nextReq, outcomes>>
  /\ UNCHANGED recorder

\* The S3 promise settles: the object is in the bucket and the handler goes
\* on to db.run, or the await throws into the catch block.
S3UploadDone(rid, ok) ==
  /\ resp = NoResp
  /\ rid \in DOMAIN reqs
  /\ reqs[rid].pc = "s3"
  /\ LET req == reqs[rid]
         fileName == S3FileName(SubmissionId(rid))
         key == S3Key(fileName)
     IN
     IF ok
       THEN /\ s3' = s3 \cup {[name |-> key, size |-> req.file.size]}
            /\ reqs' = [reqs EXCEPT ![rid] =
                          [req EXCEPT !.pc = "db",
                                      !.params = InsertParams(req, SubmissionId(rid),
                                                   S3Location(key), fileName)]]
            /\ resp' = NoResp
       ELSE /\ s3' = s3
            /\ resp' = UploadResp(rid, req, 500,
                         [error |-> "Upload failed: S3 error"])
            /\ reqs' = Finish(rid)
  /\ UNCHANGED <<env, session, rows, disk, nextReq, outcomes>>
  /\ UNCHANGED recorder

\* created_at DATETIME DEFAULT CURRENT_TIMESTAMP: only the order of the
\* timestamps is ever read (ORDER BY), so a timestamp is the rank of its
\* insert, later than that of the newest row.
Newest(table) ==
  IF table = {} THEN 0
  ELSE CHOOSE m \in {r.created_at : r \in table} : \A r \in table : r.created_at <= m
CurrentTimestamps(table) == {Newest(table) + 1}

\* An INSERT OR REPLACE keyed on the user: the new row takes the place of the
\* user's earlier rows.
InsertRowReplacing(table, params, timestamp) ==
  {r \in table : r.user_id # params.user_id}
    \cup {[id |-> params.id, user_id |-> params.user_id,
           course_id |-> params.course_id, assignment_id |-> params.assignment_id,
           audio_url |-> params.audio_url, file_name |-> params.file_name,
           file_size |-> params.file_size, duration |-> "NULL",
           created_at |-> timestamp]}

\* INSERT INTO submissions (...): duration stays NULL, created_at defaults to
\* CURRENT_TIMESTAMP
InsertRow(table, params, timestamp) ==
  table \cup {[id |-> params.id, user_id |-> params.user_id,
               course_id |-> params.course_id, assignment_id |-> params.assignment_id,
               audio_url |-> params.audio_url, file_name |-> params.file_name,
               file_size |-> params.file_size, duration |-> "NULL",
               created_at |-> timestamp]}

\* id TEXT PRIMARY KEY: an insert of an id the table holds fails
PrimaryKeyTaken(id) == \E r \in rows : r.id = id

\* A callback that reports the grade whatever the session carries.
HasOutcomeServiceAlways(lti) == TRUE

\* if (req.session.lti.lisOutcomeServiceUrl) sendGradeToCanvas(...)
HasOutcomeService(lti) == lti.lisOutcomeServiceUrl # ""

\* sendGradeToCanvas (l.245-262): the call is made and its callback is
\* pending, or something in the try block threw and was logged.  `outcomes`
\* holds the calls whose callback has not run.
sendGradeToCanvas(rid, ltiData, score, thrown) ==
  IF thrown THEN outcomes
  ELSE outcomes \cup {[rid |-> rid, consumerKey |-> ltiData.consumerKey, score |-> score]}

\* A sendGradeToCanvas without its try block.
GradeThrowUncaught(thrown) == thrown

\* An insert callback that never looks at err.
InsertFailedIgnored(err) == FALSE

\* try { ... } catch (error) { console.error(...) } (l.246, l.259): what is
\* thrown inside sendGradeToCanvas does not leave it
GradeThrowEscapes(thrown) == FALSE

\* if (err) { ...; return res.status(500)... } (l.180-183)
InsertFailed(err) == err

\* res.json({ success: true, submissionId, audioUrl, message }) (l.190-195)
SuccessJson(params) ==
  [success |-> TRUE, submissionId |-> params.id, audioUrl |-> params.audio_url,
   message |-> "Recording submitted successfully!"]

\* The callback of db.run (l.179-196).
InsertDone(rid, err, thrown, timestamp) ==
  /\ resp = NoResp
  /\ rid \in DOMAIN reqs
  /\ reqs[rid].pc = "db"
  /\ PrimaryKeyTaken(reqs[rid].params.id) => err
  /\ LET req == reqs[rid] IN
     /\ rows' = IF err THEN rows ELSE InsertRow(rows, req.params, timestamp)
     /\ IF InsertFailed(err)
          THEN /\ resp' = UploadResp(rid, req, 500, [error |-> "Failed to save submission"])
               /\ outcomes' = outcomes
          ELSE /\ outcomes' = IF HasOutcomeService(req.lti)
                                THEN sendGradeToCanvas(rid, req.lti, grade, thrown)
                                ELSE outcomes
               /\ resp' = IF HasOutcomeService(req.lti) /\ GradeThrowEscapes(thrown)
                            THEN NoResp   \* the callback dies before res.json
                            ELSE UploadResp(rid, req, 200, SuccessJson(req.params))
  /\ reqs' = Finish(rid)
  /\ UNCHANGED <<env, session, disk, s3, nextReq>>
  /\ UNCHANGED recorder

\* The callback of send_replace_result: it logs, nothing else.
OutcomeCallback(o, err) ==
  /\ resp = NoResp
  /\ o \in outcomes
  /\ outcomes' = outcomes \ {o}
  /\ resp' = NoResp
  /\ UNCHANGED <<env, session, rows, disk, s3, reqs, nextReq>>
  /\ UNCHANGED recorder

\* ---------------------------------- GET /submission/:submissionId (l.208-223)
\* A lookup by id alone.
SelectByIdOnly(id, userId) == {r \in rows : r.id = id}

\* SELECT * FROM submissions WHERE id = ? AND user_id = ?
SelectById(id, userId) == {r \in rows : r.id = id /\ r.user_id = userId}

GetResp(s, id, status, json) ==
  [kind |-> "get", session |-> s, id |-> id, status |-> status, json |-> json]

GetSubmission(s, id, err) ==
  /\ resp = NoResp
  /\ IF session[s] = Undefined
       THEN resp' = GetResp(s, id, 401, [error |-> "Session expired"])
     ELSE IF err \/ SelectById(id, session[s].userId) = {}
       THEN resp' = GetResp(s, id, 404, [error |-> "Submission not found"])
       ELSE resp' = GetResp(s, id, 200,
                      CHOOSE r \in SelectById(id, session[s].userId) : TRUE)
  /\ UNCHANGED <<env, session, rows, disk, s3, reqs, nextReq, outcomes>>
  /\ UNCHANGED recorder

\* --------------------------------------------- GET /submissions (l.226-243)
\* A listing that leaves the user out of the WHERE clause.
SelectForCourse(lti) ==
  {r \in rows : /\ r.course_id = lti.courseId
                /\ r.assignment_id = lti.assignmentId}

\* WHERE user_id = ? AND course_id = ? AND assignment_id = ?
SelectForSession(lti) ==
  {r \in rows : /\ r.user_id = lti.userId
                /\ r.course_id = lti.courseId
                /\ r.assignment_id = lti.assignmentId}

\* SELECT id, file_name, file_size, created_at
Project(r) ==
  [id |-> r.id, file_name |-> r.file_name, file_size |-> r.file_size,
   created_at |-> r.created_at]

\* ORDER BY created_at DESC: every order of the selected rows that is
\* newest first (rows of one timestamp come in any order)
OrderedNewestFirst(selected) ==
  LET n == Cardinality(selected) IN
  {q \in [1..n -> selected] :
     /\ \A i, j \in 1..n : i # j => q[i] # q[j]
     /\ \A i, j \in 1..n : i < j => q[i].created_at >= q[j].created_at}

ListResp(s, status, json) ==
  [kind |-> "list", session |-> s, status |-> status, json |-> json]

ListSubmissions(s, err) ==
  /\ resp = NoResp
  /\ IF session[s] = Undefined
       THEN resp' = ListResp(s, 401, [error |-> "Session expired"])
     ELSE IF err
       THEN resp' = ListResp(s, 500, [error |-> "Database error"])
       ELSE \E q \in OrderedNewestFirst(SelectForSession(session[s])) :
              resp' = ListResp(s, 200, [i \in DOMAIN q |-> Project(q[i])])
  /\ UNCHANGED <<env, session, rows, disk, s3, reqs, nextReq, outcomes>>
  /\ UNCHANGED recorder

\* The response has left the server.
Sent ==
  /\ resp # NoResp
  /\ resp' = NoResp
  /\ UNCHANGED <<env, session, rows, disk, s3, reqs, nextReq, outcomes>>
  /\ UNCHANGED recorder

\* The ids a browser asks for: those of the rows there are, and one of no row
RequestedIds == {r.id : r \in rows} \cup {uuidv4("unknown", 0)}

Next ==
  \/ \E s \in Sessions : \E body \in LaunchBodies(s), pr \in ProviderResults :
        Launch(s, body, pr)
  \/ \E s \in Sessions, part \in UploadBodies : UploadIntake(s, part)
  \/ \E rid \in DOMAIN reqs : UploadHandler(rid)
  \/ \E rid \in DOMAIN reqs, ok \in BOOLEAN : S3UploadDone(rid, ok)
  \/ \E rid \in DOMAIN reqs, err \in BOOLEAN, thrown \in BOOLEAN,
        timestamp \in CurrentTimestamps(rows) : InsertDone(rid, err, thrown, timestamp)
  \/ \E o \in outcomes, err \in BOOLEAN : OutcomeCallback(o, err)
  \/ \E s \in Sessions, id \in RequestedIds, err \in BOOLEAN : GetSubmission(s, id, err)
  \/ \E s \in Sessions, err \in BOOLEAN : ListSubmissions(s, err)
  \/ Sent

Spec == Init /\ [][Next]_vars

\* ======================================= the recorder page (part_001)
\* event.data of a dataavailable event: the bytes one MediaRecorder gathered.
\* A timeslice event here stands for a run of them delivered with nothing in
\* between, so it can be long; the event that follows stop() may be empty.
SliceSizes == {1024, 50 * 1024 * 1024 + 1}
FinalSizes == {0, 1024}

\* new Blob(chunks, { type: 'audio/webm' }).size
RECURSIVE BlobSize(_)
BlobSize(chunks) ==
  IF chunks = <<>> THEN 0 ELSE Head(chunks).size + BlobSize(Tail(chunks))

\* URL.createObjectURL(audioBlob), assigned to audioPlayer.src (l.175-177)
ObjectURL(chunks) == [src |-> "blob:", blob |-> chunks]

\* How a fetch of /upload-audio ends for the page: the JSON carries
\* success, or it carries an error (401, 500), or fetch or response.json()
\* rejects.
SubmitOutcomes == {"success", "error", "rejected"}

\* requestMicrophone (l.44-61), from the settling of getUserMedia on
requestMicrophone(granted) ==
  /\ getUserMedia = "pending"
  /\ getUserMedia' = "settled"
  /\ IF granted
       THEN /\ stream' = "MediaStream"
            /\ disabled' = [disabled EXCEPT !.recordBtn = FALSE]
       ELSE UNCHANGED <<stream, disabled>>
  /\ UNCHANGED <<mediaRecorder, recorders, audioChunks, isRecording, audioPlayer, hidden,
                 fetches, nextFetch, loading>>
  /\ UNCHANGED server

\* new MediaRecorder(...) followed by start(100) (l.164-190): the recorder
\* captures, or start threw and it never will
MediaRecorder(thrown) ==
  [state |-> IF thrown THEN "inactive" ELSE "recording", events |-> <<>>, slices |-> 0]

\* startRecording (l.156-204), run by a click on the record button
startRecording(thrown) ==
  /\ ~hidden
  /\ ~disabled.recordBtn
  /\ Len(recorders) < MaxRecordings
  /\ IF stream = "null"
       THEN UNCHANGED <<audioChunks, recorders, mediaRecorder, isRecording, disabled>>
       ELSE /\ audioChunks' = <<>>
            /\ recorders' = Append(recorders, MediaRecorder(thrown))
            /\ mediaRecorder' = Len(recorders) + 1
            /\ IF thrown
                 THEN UNCHANGED <<isRecording, disabled>>
                 ELSE /\ isRecording' = TRUE
                      /\ disabled' = [recordBtn |-> TRUE, stopBtn |-> FALSE,
                                      playBtn |-> TRUE, submitBtn |-> TRUE]
  /\ UNCHANGED <<stream, getUserMedia, audioPlayer, hidden, fetches, nextFetch, loading>>
  /\ UNCHANGED server

\* MediaRecorder.stop() on a recorder that captures: it is inactive at once,
\* its last dataavailable event and its stop event are delivered later
Inactivated(r) == [r EXCEPT !.state = "inactive", !.events = <<"dataavailable", "stop">>]

\* stopRecording (l.206-220): what it leaves in the recorders, in isRecording
\* and in the buttons.  stop() on an inactive recorder returns or throws
\* InvalidStateError, as the browser has it; the throw is caught at l.215
\* ahead of the assignments.
stopRecording(recs, thrown) ==
  IF mediaRecorder # 0 /\ isRecording
    THEN IF recs[mediaRecorder].state = "recording"
           THEN [recorders |-> [recs EXCEPT ![mediaRecorder] = Inactivated(@)],
                 isRecording |-> FALSE,
                 disabled |-> [disabled EXCEPT !.recordBtn = FALSE, !.stopBtn = TRUE]]
         ELSE IF thrown
           THEN [recorders |-> recs, isRecording |-> isRecording, disabled |-> disabled]
           ELSE [recorders |-> recs, isRecording |-> FALSE,
                 disabled |-> [disabled EXCEPT !.recordBtn = FALSE, !.stopBtn = TRUE]]
    ELSE [recorders |-> recs, isRecording |-> isRecording, disabled |-> disabled]

\* A click on the stop button (l.134)
StopBtnClick(thrown) ==
  /\ ~hidden
  /\ ~disabled.stopBtn
  /\ LET after == stopRecording(recorders, thrown) IN
     /\ recorders' = after.recorders
     /\ isRecording' = after.isRecording
     /\ disabled' = after.disabled
  /\ UNCHANGED <<stream, getUserMedia, mediaRecorder, audioChunks, audioPlayer, hidden,
                 fetches, nextFetch, loading>>
  /\ UNCHANGED server

\* mediaRecorder.ondataavailable (l.168-172): the handler of recorder id
\* pushes to this.audioChunks, the buffer there is now
ondataavailable(chunks, id, size) ==
  IF size > 0 THEN Append(chunks, [recorder |-> id, size |-> size]) ELSE chunks

\* A dataavailable event of the timeslice (start(100)) of a capturing
\* recorder
TimesliceData(id, size) ==
  /\ id \in DOMAIN recorders
  /\ recorders[id].state = "recording"
  /\ recorders[id].slices < MaxSlices
  /\ recorders' = [recorders EXCEPT ![id].slices = @ + 1]
  /\ audioChunks' = ondataavailable(audioChunks, id, size)
  /\ UNCHANGED <<stream, getUserMedia, mediaRecorder, isRecording, disabled, audioPlayer,
                 hidden, fetches, nextFetch, loading>>
  /\ UNCHANGED server

\* The dataavailable event that follows stop()
FinalData(id, size) ==
  /\ id \in DOMAIN recorders
  /\ recorders[id].events # <<>>
  /\ Head(recorders[id].events) = "dataavailable"
  /\ recorders' = [recorders EXCEPT ![id].events = Tail(@)]
  /\ audioChunks' = ondataavailable(audioChunks, id, size)
  /\ UNCHANGED <<stream, getUserMedia, mediaRecorder, isRecording, disabled, audioPlayer,
                 hidden, fetches, nextFetch, loading>>
  /\ UNCHANGED server

\* mediaRecorder.onstop (l.174-182), the handler of recorder id
onstop(id) ==
  /\ id \in DOMAIN recorders
  /\ recorders[id].events # <<>>
  /\ Head(recorders[id].events) = "stop"
  /\ recorders' = [recorders EXCEPT ![id].events = Tail(@)]
  /\ audioPlayer' = ObjectURL(audioChunks)
  /\ disabled' = [disabled EXCEPT !.playBtn = FALSE, !.submitBtn = FALSE]
  /\ UNCHANGED <<stream, getUserMedia, mediaRecorder, audioChunks, isRecording, hidden,
                 fetches, nextFetch, loading>>
  /\ UNCHANGED server

\* mediaRecorder.onerror (l.184-188), the handler of recorder id: the browser
\* fires error at a capturing recorder, having inactivated it or not, and the
\* handler calls stopRecording
onerror(id, inactivated, thrown) ==
  /\ id \in DOMAIN recorders
  /\ recorders[id].state = "recording"
  /\ LET recs == IF inactivated THEN [recorders EXCEPT ![id] = Inactivated(@)]
                 ELSE recorders
         after == stopRecording(recs, thrown)
     IN
     /\ recorders' = after.recorders
     /\ isRecording' = after.isRecording
     /\ disabled' = after.disabled
  /\ UNCHANGED <<stream, getUserMedia, mediaRecorder, audioChunks, audioPlayer, hidden,
                 fetches, nextFetch, loading>>
  /\ UNCHANGED server

\* if (audioBlob.size > 50 * 1024 * 1024) (l.239)
TooLarge(chunks) == BlobSize(chunks) > 50 * 1024 * 1024

\* submitRecording (l.230-255), run by a click on the submit button, up to
\* its await of fetch
submitRecording ==
  /\ ~hidden
  /\ ~disabled.submitBtn
  /\ nextFetch <= MaxSubmits
  /\ IF Len(audioChunks) = 0 \/ TooLarge(audioChunks)
       THEN UNCHANGED <<disabled, fetches, nextFetch>>
       ELSE /\ disabled' = [disabled EXCEPT !.submitBtn = TRUE]
            /\ fetches' = fetches \cup {[id |-> nextFetch, body |-> audioChunks]}
            /\ nextFetch' = nextFetch + 1
  /\ UNCHANGED <<stream, getUserMedia, mediaRecorder, recorders, audioChunks, isRecording,
                 audioPlayer, hidden, loading>>
  /\ UNCHANGED server

\* resetRecorder (l.280-288)
resetRecorder ==
  [audioChunks |-> <<>>, audioPlayer |-> [src |-> ""],
   disabled |-> [disabled EXCEPT !.playBtn = TRUE, !.submitBtn = TRUE],
   isRecording |-> FALSE,
   recorders |-> recorders]

\* submitRecording from the settling of its fetch on (l.257-277)
SubmitSettled(f, outcome) ==
  /\ f \in fetches
  /\ fetches' = fetches \ {f}
  /\ IF outcome = "success"
       THEN /\ audioChunks' = resetRecorder.audioChunks
            /\ audioPlayer' = resetRecorder.audioPlayer
            /\ disabled' = resetRecorder.disabled
            /\ isRecording' = resetRecorder.isRecording
            /\ recorders' = resetRecorder.recorders
            /\ loading' = loading + 1
       ELSE /\ disabled' = [disabled EXCEPT !.submitBtn = FALSE]
            /\ UNCHANGED <<audioChunks, audioPlayer, isRecording, recorders, loading>>
  /\ UNCHANGED <<stream, getUserMedia, mediaRecorder, hidden, nextFetch>>
  /\ UNCHANGED server

\* loadSubmissions (l.311-326) from the settling of its fetch on
loadSubmissions ==
  /\ loading > 0
  /\ loading' = loading - 1
  /\ UNCHANGED <<stream, getUserMedia, mediaRecorder, recorders, audioChunks, isRecording,
                 disabled, audioPlayer, hidden, fetches, nextFetch>>
  /\ UNCHANGED server

\* if (document.hidden && window.audioRecorder && window.audioRecorder.isRecording)
HiddenWhileRecording(isHidden) == isHidden /\ isRecording

\* The visibilitychange listener (l.384-389): the tab is hidden or shown
visibilitychange(thrown) ==
  /\ hidden' = ~hidden
  /\ LET after == IF HiddenWhileRecording(~hidden) THEN stopRecording(recorders, thrown)
                  ELSE [recorders |-> recorders, isRecording |-> isRecording,
                        disabled |-> disabled]
     IN
     /\ recorders' = after.recorders
     /\ isRecording' = after.isRecording
     /\ disabled' = after.disabled
  /\ UNCHANGED <<stream, getUserMedia, mediaRecorder, audioChunks, audioPlayer, fetches,
                 nextFetch, loading>>
  /\ UNCHANGED server

\* The page loaded from a server that nothing else talks to
RecorderInit ==
  /\ Init
  /\ env = [AWS_ACCESS_KEY_ID |-> FALSE, AWS_SECRET_ACCESS_KEY |-> FALSE]

RecorderNext ==
  \/ \E granted \in BOOLEAN : requestMicrophone(granted)
  \/ \E thrown \in BOOLEAN : startRecording(thrown)
  \/ \E thrown \in BOOLEAN : StopBtnClick(thrown)
  \/ \E id \in DOMAIN recorders, size \in SliceSizes : TimesliceData(id, size)
  \/ \E id \in DOMAIN recorders, size \in FinalSizes : FinalData(id, size)
  \/ \E id \in DOMAIN recorders : onstop(id)
  \/ \E id \in DOMAIN recorders, inactivated \in BOOLEAN, thrown \in BOOLEAN :
        onerror(id, inactivated, thrown)
  \/ submitRecording
  \/ \E f \in fetches, outcome \in SubmitOutcomes : SubmitSettled(f, outcome)
  \/ loadSubmissions
  \/ \E thrown \in BOOLEAN : visibilitychange(thrown)

RecorderSpec == RecorderInit /\ [][RecorderNext]_vars

\* `${submission.audio_url}` (l.346): a template literal writes a property the
\* object does not have as the text "undefined"
TemplateOf(submission, property) ==
  IF property \in DOMAIN submission THEN submission[property] ELSE "undefined"

\* renderSubmissions (l.328-353): one item per element of the array that
\* GET /submissions answered, with the date, the size and the Listen link
\* the item shows
renderSubmissions(submissions) ==
  [i \in DOMAIN submissions |->
     [date |-> submissions[i].created_at,
      size |-> submissions[i].file_size,
      href |-> TemplateOf(submissions[i], "audio_url")]]

\* ===================================================================== claims
\* The step that ends with a new response written
Responds == resp = NoResp /\ resp' # NoResp

\* C1: a launch whose validation reports an error or an invalid request is
\* answered 401 and leaves every session as it was; a launch whose validation
\* succeeds leaves in its session exactly the seven fields of the form it
\* submitted (and touches no other session).
C1_LaunchSetsExactlySubmittedContext ==
  [][(Responds /\ resp'.kind = "launch" /\ ~resp'.provider.thrown) =>
       IF resp'.provider.err \/ ~resp'.provider.isValid
         THEN resp'.status = 401 /\ session' = session
         ELSE /\ resp'.status = 200
              /\ session'[resp'.session] =
                   [userId |-> resp'.body.user_id,
                    courseId |-> resp'.body.context_id,
                    assignmentId |-> resp'.body.custom_canvas_assignment_id,
                    roles |-> resp'.body.roles,
                    lisResultSourcedid |-> resp'.body.lis_result_sourcedid,
                    lisOutcomeServiceUrl |-> resp'.body.lis_outcome_service_url,
                    consumerKey |-> resp'.body.oauth_consumer_key]
              /\ \A o \in Sessions \ {resp'.session} : session'[o] = session[o]]_vars

\* C1 witness: a launch was let in on a session while the other session
\* holds the context of another user.
C1_Witness ==
  /\ resp.kind = "launch"
  /\ resp.status = 200
  /\ session[resp.session].userId = "u2"
  /\ \E o \in Sessions \ {resp.session} :
       session[o] # Undefined /\ session[o].userId = "u1"

\* C2: every upload on a session without LTI context is answered 401 with
\* the relaunch instruction, and the submissions table is unchanged.
C2_NoSessionUploadIs401 ==
  [][(Responds /\ resp'.kind = "upload" /\ resp'.req.lti = Undefined) =>
       /\ resp'.status = 401
       /\ resp'.json = [error |-> "Session expired. Please relaunch from Canvas."]
       /\ rows' = rows]_vars

\* C3: an upload answered with success has added exactly one row in that
\* step; the row's id is the submissionId of the response, its file size is
\* the byte length of the stored file, and its user, course and assignment are
\* those of the session the request came with.
C3_SuccessAddsOneMatchingRow ==
  [][(Responds /\ resp'.kind = "upload" /\ resp'.status = 200) =>
       /\ rows \subseteq rows'
       /\ Cardinality(rows' \ rows) = 1
       /\ \A r \in rows' \ rows :
            /\ r.id = resp'.json.submissionId
            /\ \A q \in rows : q.id # r.id
            /\ r.file_size = resp'.req.file.size
            /\ \E f \in disk' \cup s3' :
                 /\ f.size = r.file_size
                 /\ f.name \in {r.file_name, "submissions/" \o r.file_name}
            /\ r.user_id = resp'.req.lti.userId
            /\ r.course_id = resp'.req.lti.courseId
            /\ r.assignment_id = resp'.req.lti.assignmentId]_vars

\* C3 witness: a success response to an upload in course c2, the second row
\* of the table.
C3_Witness ==
  /\ resp.kind = "upload"
  /\ resp.status = 200
  /\ resp.req.lti.courseId = "c2"
  /\ Cardinality(rows) = 2
  /\ \E r \in rows : r.id = resp.json.submissionId /\ r.file_size = 2048

\* The parts the upload policy turns away: longer than 50 MiB, or declared
\* neither audio/* nor video/webm
TurnedAway(part) ==
  \/ part.size > 50 * 1024 * 1024
  \/ ~(\/ part.mimetype.type = "audio"
       \/ part.mimetype.type = "video" /\ part.mimetype.subtype = "webm")

\* C4: the intake of a part the policy turns away writes nothing to the
\* uploads directory or the bucket, adds no row and hands nothing to the
\* route handler, on a session with or without LTI context.
C4_TurnedAwayWritesNothing ==
  [][\A s \in Sessions, part \in FileParts :
       (TurnedAway(part) /\ UploadIntake(s, part)) =>
          /\ disk' = disk
          /\ s3' = s3
          /\ rows' = rows
          /\ reqs' = reqs
          /\ resp'.kind = "upload"
          /\ resp'.status >= 400]_vars

\* C4 witness: an oversize audio part was turned away on a session with LTI
\* context, in a process that already stores a file.
C4_Witness ==
  /\ resp.kind = "upload"
  /\ resp.req.pc = "multer"
  /\ resp.req.part.size > fileSize
  /\ resp.req.part.mimetype.type = "audio"
  /\ resp.req.lti # Undefined
  /\ disk \cup s3 # {}

\* C5: on a session with LTI context, when the object-store upload rejects,
\* when the request carries no file, or when the insert fails, the request is
\* answered 500 in that step, is over (no second response can follow), and the
\* table holds no row for it.
C5_FailureIs500AndNoRow ==
  [][\A rid \in DOMAIN reqs :
       (/\ reqs[rid].lti # Undefined
        /\ \/ S3UploadDone(rid, FALSE)
           \/ UploadHandler(rid) /\ reqs[rid].file = Undefined
           \/ \E thrown \in BOOLEAN, timestamp \in CurrentTimestamps(rows) :
                InsertDone(rid, TRUE, thrown, timestamp)) =>
          /\ resp'.kind = "upload"
          /\ resp'.rid = rid
          /\ resp'.status = 500
          /\ rid \notin DOMAIN reqs'
          /\ rows' = rows
          /\ \A r \in rows' : r.id # "submissionId-" \o ToString(rid)]_vars

\* C5 witness: an insert failed after the object was stored in the bucket.
C5_Witness ==
  /\ resp.kind = "upload"
  /\ resp.status = 500
  /\ resp.json = [error |-> "Failed to save submission"]
  /\ resp.req.lti # Undefined
  /\ s3 # {}

\* The file and the row of the upload request numbered rid
FileOfRequest(rid) ==
  {f \in disk : f.name = "filename-" \o ToString(rid) \o ".webm"}
    \cup {f \in s3 : f.name = "submissions/audio-submissionId-" \o ToString(rid) \o ".webm"}
RowOfRequest(rid) == {r \in rows : r.id = "submissionId-" \o ToString(rid)}

\* C6: once an upload request has been answered, whatever the answer, its
\* file is in the storage backend if and only if its row is in the table.
C6_FileIffRow ==
  (resp.kind = "upload" /\ resp.rid # 0) =>
     (FileOfRequest(resp.rid) # {} <=> RowOfRequest(resp.rid) # {})

\* The elements of a JSON array
Elements(array) == {array[i] : i \in DOMAIN array}

\* C7: a listing answered with rows holds, once each, exactly the rows whose
\* user, course and assignment are those of the asking session, so never a
\* row of another user.
C7_ListIsScopedToSession ==
  (resp.kind = "list" /\ resp.status = 200) =>
     /\ session[resp.session] # Undefined
     /\ Elements(resp.json) =
          {[id |-> r.id, file_name |-> r.file_name, file_size |-> r.file_size,
            created_at |-> r.created_at] :
             r \in {x \in rows : /\ x.user_id = session[resp.session].userId
                                 /\ x.course_id = session[resp.session].courseId
                                 /\ x.assignment_id = session[resp.session].assignmentId}}
     /\ Cardinality(Elements(resp.json)) = Len(resp.json)
     /\ \A i \in DOMAIN resp.json : \A r \in rows :
          r.id = resp.json[i].id => r.user_id = session[resp.session].userId

\* C7 witness: a session lists its own row while the table also holds a row
\* of another user in the same course and assignment.
C7_Witness ==
  /\ resp.kind = "list"
  /\ resp.status = 200
  /\ Len(resp.json) = 1
  /\ \E r \in rows : /\ r.user_id # session[resp.session].userId
                     /\ r.course_id = session[resp.session].courseId
                     /\ r.assignment_id = session[resp.session].assignmentId

\* C8: a get on a session with LTI context returns a row only if the row has
\* the id asked for and the session's user; for an id of another user's row
\* the answer is the 404 given for an id of no row.
C8_GetIsOwnRowOrNotFound ==
  (resp.kind = "get" /\ session[resp.session] # Undefined) =>
     /\ resp.status \in {200, 404}
     /\ resp.status = 200 =>
          /\ resp.json \in rows
          /\ resp.json.id = resp.id
          /\ resp.json.user_id = session[resp.session].userId
     /\ (\A r \in rows : r.id = resp.id => r.user_id # session[resp.session].userId) =>
          /\ resp.status = 404
          /\ resp.json = [error |-> "Submission not found"]

\* C8 witness: a get for the id of another user's row was answered 404.
C8_Witness ==
  /\ resp.kind = "get"
  /\ resp.status = 404
  /\ session[resp.session] # Undefined
  /\ \E r \in rows : r.id = resp.id /\ r.user_id # session[resp.session].userId

\* C9: when the insert succeeded, the response is the success response and
\* the row is the same row whether sendGradeToCanvas threw or made its call;
\* the callback of the call, with or without an error, changes no row, no
\* request and writes no response.
C9_OutcomeIsolated ==
  [][/\ \A rid \in DOMAIN reqs, thrown \in BOOLEAN, timestamp \in CurrentTimestamps(rows) :
          InsertDone(rid, FALSE, thrown, timestamp) =>
             /\ resp'.kind = "upload"
             /\ resp'.status = 200
             /\ resp'.json.success
             /\ resp'.json.submissionId = "submissionId-" \o ToString(rid)
             /\ \E r \in rows' \ rows : r.id = "submissionId-" \o ToString(rid)
     /\ \A o \in outcomes, err \in BOOLEAN :
          OutcomeCallback(o, err) =>
             /\ rows' = rows
             /\ reqs' = reqs
             /\ resp' = NoResp]_vars

\* C9 witness: a success response was written although no outcome call was
\* made for a session that carries an outcome service URL (it threw).
C9_Witness ==
  /\ resp.kind = "upload"
  /\ resp.status = 200
  /\ resp.req.lti.lisOutcomeServiceUrl # ""
  /\ \A o \in outcomes : o.rid # resp.rid

\* C10: row ids are pairwise distinct, and every step leaves the rows there
\* are as they are; the table grows by one row at a time, in the step that
\* writes the success response of an upload.
C10_RowsWriteOnce ==
  /\ [](\A r1, r2 \in rows : r1.id = r2.id => r1 = r2)
  /\ [][/\ rows \subseteq rows'
        /\ Cardinality(rows' \ rows) <= 1
        /\ rows' # rows => resp'.kind = "upload" /\ resp'.status = 200]_vars

\* C10 witness: two rows of one user, and a query has run since.
C10_Witness ==
  /\ Cardinality(rows) = 2
  /\ \A r \in rows : r.user_id = "u2"
  /\ resp.kind \in {"get", "list"}

\* C11: a launch that is let in leaves in its session the context of its own
\* form and nothing of what the session held before, and no other step
\* changes a session; so an upload that arrives later is handed that context
\* and its row is tagged with it, and a later list or get is answered from the
\* rows of that context's user (for a list: course and assignment too).
C11_LaunchOverwritesContext ==
  [][/\ (resp'.kind = "launch" /\ resp'.status = 200) =>
          \A s \in Sessions : \A body \in LaunchBodies(s), pr \in ProviderResults :
          Launch(s, body, pr) =>
             /\ session'[s].userId = body.user_id
             /\ session'[s].courseId = body.context_id
             /\ session'[s].assignmentId = body.custom_canvas_assignment_id
             /\ session'[s].roles = body.roles
             /\ session'[s].lisResultSourcedid = body.lis_result_sourcedid
             /\ session'[s].lisOutcomeServiceUrl = body.lis_outcome_service_url
             /\ session'[s].consumerKey = body.oauth_consumer_key
             /\ DOMAIN session'[s] =
                  {"userId", "courseId", "assignmentId", "roles", "lisResultSourcedid",
                   "lisOutcomeServiceUrl", "consumerKey"}
     /\ (resp'.kind # "launch" \/ resp'.status # 200) => session' = session
     /\ nextReq' # nextReq =>
          \A s \in Sessions, part \in UploadBodies :
             UploadIntake(s, part) => reqs'[nextReq].lti = session[s]
     /\ \A rid \in DOMAIN reqs : \A r \in rows' \ rows :
          r.id = "submissionId-" \o ToString(rid) =>
             /\ r.user_id = reqs[rid].lti.userId
             /\ r.course_id = reqs[rid].lti.courseId
             /\ r.assignment_id = reqs[rid].lti.assignmentId
     /\ (Responds /\ resp'.kind = "list" /\ resp'.status = 200) =>
          \A i \in DOMAIN resp'.json : \E r \in rows :
             /\ r.id = resp'.json[i].id
             /\ r.user_id = session[resp'.session].userId
             /\ r.course_id = session[resp'.session].courseId
             /\ r.assignment_id = session[resp'.session].assignmentId
     /\ (Responds /\ resp'.kind = "get" /\ resp'.status = 200) =>
          resp'.json.user_id = session[resp'.session].userId]_vars

\* C11 witness: browser s1 was launched as u1 and later as u2 (only s1 uploads
\* in course c2, only s1 uploads as u1), uploaded under each, and its list now
\* shows the row of the second launch alone.
C11_Witness ==
  /\ resp.kind = "list"
  /\ resp.status = 200
  /\ resp.session = "s1"
  /\ session["s1"].userId = "u2"
  /\ \E r \in rows : r.user_id = "u1"
  /\ \E r \in rows : r.course_id = "c2" /\ Len(resp.json) = 1 /\ resp.json[1].id = r.id

\* C12: when a submit fails (its fetch rejects, or the answer carries no
\* success), the chunk buffer holds the clip that was submitted and the submit
\* button is enabled, so a retry submits that clip; a submit the size check
\* refuses leaves the buffer and the enabled button as they are; whatever the
\* user did while the fetch was in flight.
C12_FailedSubmitIsRetryable ==
  [][/\ \A f \in fetches : \A outcome \in {"error", "rejected"} :
          SubmitSettled(f, outcome) =>
             /\ audioChunks' = f.body
             /\ ~disabled'.submitBtn
     /\ (submitRecording /\ BlobSize(audioChunks) > 50 * 1024 * 1024) =>
          /\ audioChunks' = audioChunks
          /\ ~disabled'.submitBtn
          /\ fetches' = fetches]_vars

\* C13: once the visibilitychange listener has run for a tab that is now
\* hidden, no media recorder captures, and none starts to while the tab stays
\* hidden: in no state is the tab hidden and a recorder capturing.
C13_NoCaptureWhileHidden ==
  hidden => \A id \in DOMAIN recorders : recorders[id].state # "recording"

\* C14: the step in which a submit succeeds leaves the recorder as it is once
\* the microphone is granted: the chunk buffer empty and the player without
\* a clip, no recording in progress (the flag down, no recorder capturing),
\* play and submit disabled, the record button enabled, and one more load of
\* the submission list under way; whatever the user did while the fetch was
\* in flight.
C14_SuccessResetsToMicGranted ==
  [][\A f \in fetches :
       SubmitSettled(f, "success") =>
          /\ audioChunks' = <<>>
          /\ audioPlayer'.src = ""
          /\ ~isRecording'
          /\ \A id \in DOMAIN recorders' : recorders'[id].state # "recording"
          /\ disabled'.playBtn
          /\ disabled'.submitBtn
          /\ ~disabled'.recordBtn
          /\ loading' = loading + 1]_vars

\* C15: the environment never changes, and every upload the route handler
\* takes to storage goes to the object store exactly when both credential
\* variables are set (the engine chosen at startup is the memory engine) and
\* to the local directory otherwise, also when only one of the two is set;
\* so files are only ever in the backend the startup chose.
C15_BranchFollowsStartupChoice ==
  /\ [][/\ env' = env
        /\ \A rid \in DOMAIN reqs :
             (UploadHandler(rid) /\ rid \in DOMAIN reqs') =>
                /\ reqs'[rid].pc = "s3" <=>
                     (env.AWS_ACCESS_KEY_ID /\ env.AWS_SECRET_ACCESS_KEY)
                /\ reqs'[rid].pc = "db" <=>
                     ~(env.AWS_ACCESS_KEY_ID /\ env.AWS_SECRET_ACCESS_KEY)
                /\ reqs'[rid].pc = "db" =>
                     \E f \in disk : reqs'[rid].params.audio_url = "/uploads/" \o f.name]_vars
  /\ [](/\ (env.AWS_ACCESS_KEY_ID /\ env.AWS_SECRET_ACCESS_KEY) => disk = {}
        /\ ~(env.AWS_ACCESS_KEY_ID /\ env.AWS_SECRET_ACCESS_KEY) => s3 = {})

\* C15 witness: only the access key is set, and the handler has taken an
\* upload to the local directory.
C15_Witness ==
  /\ env.AWS_ACCESS_KEY_ID
  /\ ~env.AWS_SECRET_ACCESS_KEY
  /\ \E rid \in DOMAIN reqs :
       /\ reqs[rid].pc = "db"
       /\ reqs[rid].params.audio_url = "/uploads/filename-" \o ToString(rid) \o ".webm"
  /\ disk # {}

\* C16: a grade report goes out for an upload exactly in the step in which
\* its insert succeeded on a session that carries an outcome service URL
\* (unless sendGradeToCanvas threw on the way, which is logged): by then the
\* file is stored and the row is in the table, the request is over (so there
\* is no second report for it), the score is 1.0 and the answer is the success
\* response; no other step sends a report, none is sent for an upload answered
\* 401 or 500, and no two pending reports are for one upload.
C16_GradeReportFollowsInsert ==
  /\ [][/\ \A rid \in DOMAIN reqs, err \in BOOLEAN, thrown \in BOOLEAN,
              timestamp \in CurrentTimestamps(rows) :
             InsertDone(rid, err, thrown, timestamp) =>
                /\ (outcomes' # outcomes) <=>
                     (~err /\ reqs[rid].lti.lisOutcomeServiceUrl # "" /\ ~thrown)
                /\ \A o \in outcomes' \ outcomes :
                     /\ outcomes' = outcomes \cup {o}
                     /\ o.rid = rid
                     /\ o.score = 1
                     /\ \E r \in rows' : r.id = "submissionId-" \o ToString(rid)
                     /\ \E f \in disk \cup s3 :
                          f.name \in {"filename-" \o ToString(rid) \o ".webm",
                                      "submissions/audio-submissionId-" \o ToString(rid)
                                         \o ".webm"}
                     /\ rid \notin DOMAIN reqs'
        /\ \A o \in outcomes' \ outcomes :
             /\ resp'.kind = "upload"
             /\ resp'.status = 200
             /\ resp'.rid = o.rid
             /\ o.rid \in DOMAIN reqs]_vars
  /\ [](\A o1, o2 \in outcomes : o1.rid = o2.rid => o1 = o2)

\* C16 witness: the report of one upload is pending while a second upload,
\* on a session without an outcome service URL, has been answered with
\* success and no report.
C16_Witness ==
  /\ resp.kind = "upload"
  /\ resp.status = 200
  /\ resp.req.lti.lisOutcomeServiceUrl = ""
  /\ \E o \in outcomes : o.rid # resp.rid /\ o.score = 1
  /\ \A o \in outcomes : o.rid # resp.rid

\* C17: in every state isRecording is true exactly when the media recorder
\* the page holds is capturing, and no other recorder captures; so a capture
\* in progress always has the flag that stopRecording asks for.
C17_FlagAgreesWithRecorder ==
  /\ isRecording <=> (mediaRecorder # 0 /\ recorders[mediaRecorder].state = "recording")
  /\ \A id \in DOMAIN recorders : recorders[id].state = "recording" => id = mediaRecorder

\* C18: while a recording started after a stopped one is in progress, the
\* data event and the stop event the stopped recorder still had to deliver
\* change neither the chunk buffer nor the buttons nor the player, so the
\* buffer holds chunks of the recording in progress only and play and submit
\* stay disabled.
C18_StaleEventsHaveNoEffect ==
  [][\A id \in DOMAIN recorders :
       (/\ id # mediaRecorder
        /\ recorders[mediaRecorder].state = "recording"
        /\ \/ \E size \in FinalSizes : FinalData(id, size)
           \/ onstop(id)) =>
          /\ audioChunks' = audioChunks
          /\ \A i \in DOMAIN audioChunks' : audioChunks'[i].recorder = mediaRecorder
          /\ disabled' = disabled
          /\ disabled'.playBtn
          /\ disabled'.submitBtn
          /\ audioPlayer' = audioPlayer]_vars

\* C19: when an upload on a session without LTI context is answered 401,
\* the storage backend holds what it held when the request arrived: no file
\* of that request is in the uploads directory or in the bucket.
C19_UnauthorizedUploadStoresNothing ==
  (resp.kind = "upload" /\ resp.status = 401) =>
     /\ \A f \in disk : f.name # "filename-" \o ToString(resp.rid) \o ".webm"
     /\ \A f \in s3 :
          f.name # "submissions/audio-submissionId-" \o ToString(resp.rid) \o ".webm"

\* C20: a launch whose validation fails on a session that holds an LTI
\* context is answered 401 (a launch that dies in the Provider constructor is
\* not let in either) and leaves every field of that context (and every
\* other session) as it was, so what arrives afterwards on the session, an
\* upload or a query, is still handed the earlier context.
C20_FailedLaunchKeepsContext ==
  [][resp'.kind = "launch" =>
     \A s \in Sessions : \A body \in LaunchBodies(s), pr \in ProviderResults :
       (/\ Launch(s, body, pr)
        /\ session[s] # Undefined
        /\ (pr.thrown \/ pr.err \/ ~pr.isValid)) =>
          /\ ~pr.thrown => resp'.status = 401
          /\ resp'.status # 200
          /\ session' = session
          /\ session'[s].userId = session[s].userId
          /\ session'[s].courseId = session[s].courseId
          /\ session'[s].assignmentId = session[s].assignmentId
          /\ session'[s].roles = session[s].roles
          /\ session'[s].lisResultSourcedid = session[s].lisResultSourcedid
          /\ session'[s].lisOutcomeServiceUrl = session[s].lisOutcomeServiceUrl
          /\ session'[s].consumerKey = session[s].consumerKey
          /\ UNCHANGED <<rows, reqs, disk, s3>>]_vars

\* C20 witness: a launch has just failed on browser s1, which still holds
\* the context of u1 from an earlier launch and has a row uploaded under it.
C20_Witness ==
  /\ resp.kind = "launch"
  /\ resp.status = 401
  /\ resp.session = "s1"
  /\ session["s1"] # Undefined
  /\ session["s1"].userId = "u1"
  /\ \E r \in rows : r.user_id = "u1"

\* C21: every item the page renders from a list the server answered carries
\* a Listen link whose target is the audio_url of the row the item stands
\* for; so every element of the answer has the audio_url field.
C21_ListenLinkIsStoredUrl ==
  (resp.kind = "list" /\ resp.status = 200) =>
     \A i \in DOMAIN resp.json :
        /\ "audio_url" \in DOMAIN resp.json[i]
        /\ \E r \in rows :
             /\ r.id = resp.json[i].id
             /\ renderSubmissions(resp.json)[i].href = r.audio_url
====
